---------------------------- MODULE Spec2Model ----------------------------
(***************************************************************************)
(* nf-core/proteinfold on Latch: the workflow entrypoint                   *)
(* (src/wf/entrypoint.py) and the parameter registry                       *)
(* (src/latch_metadata/parameters.py).                                     *)
(*                                                                         *)
(* The module models one run of nf_nf_core_proteinfold: initialize()       *)
(* provisions storage, nextflow_runtime() stages the workspace, builds the *)
(* nextflow command line from its arguments, runs the pipeline subprocess  *)
(* and reports (log upload, workdir size) in its finally block.            *)
(***************************************************************************)
EXTENDS Integers, Sequences, FiniteSets, TLC

(***************************************************************************)
(* Bounds of the model.                                                    *)
(***************************************************************************)
\* how many arguments differ from one of the base bindings in an initial state
MaxVaried == 1
\* integer arguments range over -MaxInt .. MaxInt
MaxInt == 12
\* longest digit string the integer reader accepts
MaxDigits == 2

(***************************************************************************)
(* Python values.  Every value is a record of the same shape, so that      *)
(* values of different Python types can be compared: t is the type tag,    *)
(* s the text of a str / the remote path of a LatchFile or LatchDir / the  *)
(* member name of a Mode, n the number of an int, b the truth of a bool.   *)
(***************************************************************************)
None == [t |-> "none", s |-> "", n |-> 0, b |-> FALSE]
StrV(x) == [t |-> "str", s |-> x, n |-> 0, b |-> FALSE]
IntV(x) == [t |-> "int", s |-> "", n |-> x, b |-> FALSE]
BoolV(x) == [t |-> "bool", s |-> "", n |-> 0, b |-> x]
ModeV(x) == [t |-> "mode", s |-> x, n |-> 0, b |-> FALSE]
LatchFileV(x) == [t |-> "file", s |-> x, n |-> 0, b |-> FALSE]
LatchDirV(x) == [t |-> "dir", s |-> x, n |-> 0, b |-> FALSE]

\* class Mode(Enum): member name |-> member value
Mode ==
    [alphafold2 |-> "alphafold2", colabfold |-> "colabfold", esmfold |-> "esmfold"]

(***************************************************************************)
(* The parameters of nextflow_runtime by declared type (pvc_name, the      *)
(* storage handle, is passed separately).                                  *)
(***************************************************************************)
StrParams == {"run_name"}
LatchFileParams == {"input"}
LatchOutputDirParams == {"outdir"}
ModeParams == {"mode"}
BoolParams == {
    "use_gpu", "create_colabfold_index", "skip_multiqc", "full_dbs", "use_amber",
    "use_templates"
    }
OptStrParams == {
    "email", "multiqc_title", "alphafold2_db", "colabfold_db", "host_url",
    "esmfold_model_preset", "colabfold_alphafold2_params_link",
    "uniref30_colabfold_path", "colabfold_alphafold2_params_tags",
    "max_template_date", "alphafold2_mode", "alphafold2_model_preset",
    "colabfold_server", "colabfold_model_preset", "bfd_link", "small_bfd_link",
    "alphafold2_params_link", "mgnify_link", "pdb70_link", "pdb_mmcif_link",
    "pdb_obsolete_link", "uniref30_alphafold2_link", "uniref90_link",
    "pdb_seqres_link", "uniprot_sprot_link", "uniprot_trembl_link",
    "colabfold_db_link", "uniref30_colabfold_link", "esmfold_3B_v1",
    "esm2_t36_3B_UR50D", "esm2_t36_3B_UR50D_contact_regression"
    }
OptIntParams == {
    "num_recycles_colabfold", "db_load_mode", "num_recycles_esmfold"
    }
OptLatchDirParams == {
    "esmfold_db", "bfd_path", "small_bfd_path", "alphafold2_params_path",
    "mgnify_path", "pdb70_path", "pdb_mmcif_path", "uniref30_alphafold2_path",
    "uniref90_path", "pdb_seqres_path", "uniprot_path", "colabfold_db_path",
    "colabfold_alphafold2_params_path", "esmfold_params_path"
    }
OptLatchFileParams == {
    "multiqc_methods_description"
    }
RuntimeParams ==
    StrParams \cup LatchFileParams \cup LatchOutputDirParams \cup ModeParams
    \cup BoolParams \cup OptStrParams \cup OptIntParams \cup OptLatchDirParams
    \cup OptLatchFileParams
OptionalParams ==
    OptStrParams \cup OptIntParams \cup OptLatchDirParams \cup OptLatchFileParams
ParamType(p) ==
    CASE p \in StrParams -> "str"
      [] p \in LatchFileParams -> "LatchFile"
      [] p \in LatchOutputDirParams -> "LatchOutputDir"
      [] p \in ModeParams -> "Mode"
      [] p \in BoolParams -> "bool"
      [] p \in OptStrParams -> "Optional[str]"
      [] p \in OptIntParams -> "Optional[int]"
      [] p \in OptLatchDirParams -> "Optional[LatchDir]"
      [] p \in OptLatchFileParams -> "Optional[LatchFile]"

\* generated_parameters: the keys of the registry, in the order of the dict
generated_parameters == <<
    "run_name", "input", "outdir", "mode", "use_gpu", "email", "multiqc_title",
    "max_template_date", "alphafold2_db", "full_dbs", "alphafold2_mode",
    "alphafold2_model_preset", "colabfold_db", "colabfold_server",
    "colabfold_model_preset", "num_recycles_colabfold", "use_amber",
    "db_load_mode", "host_url", "use_templates", "create_colabfold_index",
    "esmfold_db", "num_recycles_esmfold", "esmfold_model_preset", "skip_multiqc",
    "bfd_link", "small_bfd_link", "alphafold2_params_link", "mgnify_link",
    "pdb70_link", "pdb_mmcif_link", "pdb_obsolete_link",
    "uniref30_alphafold2_link", "uniref90_link", "pdb_seqres_link",
    "uniprot_sprot_link", "uniprot_trembl_link", "bfd_path", "small_bfd_path",
    "alphafold2_params_path", "mgnify_path", "pdb70_path", "pdb_mmcif_path",
    "uniref30_alphafold2_path", "uniref90_path", "pdb_seqres_path", "uniprot_path",
    "colabfold_db_link", "uniref30_colabfold_link",
    "colabfold_alphafold2_params_link", "colabfold_db_path",
    "uniref30_colabfold_path", "colabfold_alphafold2_params_path",
    "colabfold_alphafold2_params_tags", "esmfold_3B_v1", "esm2_t36_3B_UR50D",
    "esm2_t36_3B_UR50D_contact_regression", "esmfold_params_path",
    "multiqc_methods_description"
    >>

\* the get_flag(...) calls in cmd, in order: <<flag name, argument passed>>
FlagCalls == <<
    <<"input", "input">>, <<"outdir", "outdir">>, <<"mode", "mode">>,
    <<"use_gpu", "use_gpu">>, <<"email", "email">>,
    <<"multiqc_title", "multiqc_title">>,
    <<"max_template_date", "max_template_date">>,
    <<"alphafold2_db", "alphafold2_db">>, <<"full_dbs", "full_dbs">>,
    <<"alphafold2_mode", "alphafold2_mode">>,
    <<"alphafold2_model_preset", "alphafold2_model_preset">>,
    <<"colabfold_db", "colabfold_db">>, <<"colabfold_server", "colabfold_server">>,
    <<"colabfold_model_preset", "colabfold_model_preset">>,
    <<"num_recycles_colabfold", "num_recycles_colabfold">>,
    <<"use_amber", "use_amber">>, <<"db_load_mode", "db_load_mode">>,
    <<"host_url", "host_url">>, <<"use_templates", "use_templates">>,
    <<"create_colabfold_index", "create_colabfold_index">>,
    <<"esmfold_db", "esmfold_db">>,
    <<"num_recycles_esmfold", "num_recycles_esmfold">>,
    <<"esmfold_model_preset", "esmfold_model_preset">>,
    <<"skip_multiqc", "skip_multiqc">>, <<"bfd_link", "bfd_link">>,
    <<"small_bfd_link", "small_bfd_link">>,
    <<"alphafold2_params_link", "alphafold2_params_link">>,
    <<"mgnify_link", "mgnify_link">>, <<"pdb70_link", "pdb70_link">>,
    <<"pdb_mmcif_link", "pdb_mmcif_link">>,
    <<"pdb_obsolete_link", "pdb_obsolete_link">>,
    <<"uniref30_alphafold2_link", "uniref30_alphafold2_link">>,
    <<"uniref90_link", "uniref90_link">>, <<"pdb_seqres_link", "pdb_seqres_link">>,
    <<"uniprot_sprot_link", "uniprot_sprot_link">>,
    <<"uniprot_trembl_link", "uniprot_trembl_link">>, <<"bfd_path", "bfd_path">>,
    <<"small_bfd_path", "small_bfd_path">>,
    <<"alphafold2_params_path", "alphafold2_params_path">>,
    <<"mgnify_path", "mgnify_path">>, <<"pdb70_path", "pdb70_path">>,
    <<"pdb_mmcif_path", "pdb_mmcif_path">>,
    <<"uniref30_alphafold2_path", "uniref30_alphafold2_path">>,
    <<"uniref90_path", "uniref90_path">>, <<"pdb_seqres_path", "pdb_seqres_path">>,
    <<"uniprot_path", "uniprot_path">>,
    <<"colabfold_db_link", "colabfold_db_link">>,
    <<"uniref30_colabfold_link", "uniref30_colabfold_link">>,
    <<"colabfold_alphafold2_params_link", "colabfold_alphafold2_params_link">>,
    <<"colabfold_db_path", "colabfold_db_path">>,
    <<"uniref30_colabfold_path", "uniref30_colabfold_path">>,
    <<"colabfold_alphafold2_params_path", "colabfold_alphafold2_params_path">>,
    <<"colabfold_alphafold2_params_tags", "colabfold_alphafold2_params_tags">>,
    <<"esmfold_3B_v1", "esmfold_3B_v1">>,
    <<"esm2_t36_3B_UR50D", "esm2_t36_3B_UR50D">>,
    <<"esm2_t36_3B_UR50D_contact_regression", "esm2_t36_3B_UR50D_contact_regression">>,
    <<"esmfold_params_path", "esmfold_params_path">>,
    <<"multiqc_methods_description", "multiqc_methods_description">>
    >>

\* the keys of generated_parameters with the type= of each NextflowParameter,
\* in the order written
RegistryDecls ==
    << <<"run_name", "str">>,
       <<"input", "LatchFile">>,
       <<"outdir", "LatchOutputDir">>,
       <<"mode", "Mode">>,
       <<"use_gpu", "bool">>,
       <<"email", "Optional[str]">>,
       <<"multiqc_title", "Optional[str]">>,
       <<"max_template_date", "Optional[str]">>,
       <<"alphafold2_db", "Optional[str]">>,
       <<"full_dbs", "bool">>,
       <<"alphafold2_mode", "Optional[str]">>,
       <<"alphafold2_model_preset", "Optional[str]">>,
       <<"colabfold_db", "Optional[str]">>,
       <<"colabfold_server", "Optional[str]">>,
       <<"colabfold_model_preset", "Optional[str]">>,
       <<"num_recycles_colabfold", "Optional[int]">>,
       <<"use_amber", "bool">>,
       <<"db_load_mode", "Optional[int]">>,
       <<"host_url", "Optional[str]">>,
       <<"use_templates", "bool">>,
       <<"create_colabfold_index", "bool">>,
       <<"esmfold_db", "Optional[str]">>,
       <<"num_recycles_esmfold", "Optional[int]">>,
       <<"esmfold_model_preset", "Optional[str]">>,
       <<"skip_multiqc", "bool">>,
       <<"bfd_link", "Optional[str]">>,
       <<"small_bfd_link", "Optional[str]">>,
       <<"alphafold2_params_link", "Optional[str]">>,
       <<"mgnify_link", "Optional[str]">>,
       <<"pdb70_link", "Optional[str]">>,
       <<"pdb_mmcif_link", "Optional[str]">>,
       <<"pdb_obsolete_link", "Optional[str]">>,
       <<"uniref30_alphafold2_link", "Optional[str]">>,
       <<"uniref90_link", "Optional[str]">>,
       <<"pdb_seqres_link", "Optional[str]">>,
       <<"uniprot_sprot_link", "Optional[str]">>,
       <<"uniprot_trembl_link", "Optional[str]">>,
       <<"bfd_path", "Optional[LatchDir]">>,
       <<"small_bfd_path", "Optional[LatchDir]">>,
       <<"alphafold2_params_path", "Optional[LatchDir]">>,
       <<"mgnify_path", "Optional[LatchDir]">>,
       <<"pdb70_path", "Optional[LatchDir]">>,
       <<"pdb_mmcif_path", "Optional[LatchDir]">>,
       <<"uniref30_alphafold2_path", "Optional[LatchDir]">>,
       <<"uniref90_path", "Optional[LatchDir]">>,
       <<"pdb_seqres_path", "Optional[LatchDir]">>,
       <<"uniprot_path", "Optional[LatchDir]">>,
       <<"colabfold_db_link", "Optional[str]">>,
       <<"uniref30_colabfold_link", "Optional[str]">>,
       <<"colabfold_alphafold2_params_link", "Optional[str]">>,
       <<"colabfold_db_path", "Optional[str]">>,
       <<"uniref30_colabfold_path", "Optional[str]">>,
       <<"colabfold_alphafold2_params_path", "Optional[str]">>,
       <<"colabfold_alphafold2_params_tags", "Optional[str]">>,
       <<"esmfold_3B_v1", "Optional[str]">>,
       <<"esm2_t36_3B_UR50D", "Optional[str]">>,
       <<"esm2_t36_3B_UR50D_contact_regression", "Optional[str]">>,
       <<"esmfold_params_path", "Optional[str]">>,
       <<"multiqc_methods_description", "Optional[LatchFile]">> >>

\* the parameters of nf_nf_core_proteinfold with their annotations, in the
\* order written
WorkflowDecls ==
    << <<"run_name", "str">>,
       <<"input", "LatchFile">>,
       <<"outdir", "LatchOutputDir">>,
       <<"use_gpu", "bool">>,
       <<"email", "Optional[str]">>,
       <<"multiqc_title", "Optional[str]">>,
       <<"alphafold2_db", "Optional[str]">>,
       <<"colabfold_db", "Optional[str]">>,
       <<"host_url", "Optional[str]">>,
       <<"create_colabfold_index", "bool">>,
       <<"esmfold_db", "Optional[LatchDir]">>,
       <<"esmfold_model_preset", "Optional[str]">>,
       <<"skip_multiqc", "bool">>,
       <<"bfd_path", "Optional[LatchDir]">>,
       <<"small_bfd_path", "Optional[LatchDir]">>,
       <<"alphafold2_params_path", "Optional[LatchDir]">>,
       <<"mgnify_path", "Optional[LatchDir]">>,
       <<"pdb70_path", "Optional[LatchDir]">>,
       <<"pdb_mmcif_path", "Optional[LatchDir]">>,
       <<"uniref30_alphafold2_path", "Optional[LatchDir]">>,
       <<"uniref90_path", "Optional[LatchDir]">>,
       <<"pdb_seqres_path", "Optional[LatchDir]">>,
       <<"uniprot_path", "Optional[LatchDir]">>,
       <<"colabfold_alphafold2_params_link", "Optional[str]">>,
       <<"colabfold_db_path", "Optional[LatchDir]">>,
       <<"uniref30_colabfold_path", "Optional[str]">>,
       <<"colabfold_alphafold2_params_path", "Optional[LatchDir]">>,
       <<"colabfold_alphafold2_params_tags", "Optional[str]">>,
       <<"esmfold_params_path", "Optional[LatchDir]">>,
       <<"multiqc_methods_description", "Optional[LatchFile]">>,
       <<"mode", "Mode">>,
       <<"max_template_date", "Optional[str]">>,
       <<"full_dbs", "bool">>,
       <<"alphafold2_mode", "Optional[str]">>,
       <<"alphafold2_model_preset", "Optional[str]">>,
       <<"colabfold_server", "Optional[str]">>,
       <<"colabfold_model_preset", "Optional[str]">>,
       <<"num_recycles_colabfold", "Optional[int]">>,
       <<"use_amber", "bool">>,
       <<"db_load_mode", "Optional[int]">>,
       <<"use_templates", "bool">>,
       <<"num_recycles_esmfold", "Optional[int]">>,
       <<"bfd_link", "Optional[str]">>,
       <<"small_bfd_link", "Optional[str]">>,
       <<"alphafold2_params_link", "Optional[str]">>,
       <<"mgnify_link", "Optional[str]">>,
       <<"pdb70_link", "Optional[str]">>,
       <<"pdb_mmcif_link", "Optional[str]">>,
       <<"pdb_obsolete_link", "Optional[str]">>,
       <<"uniref30_alphafold2_link", "Optional[str]">>,
       <<"uniref90_link", "Optional[str]">>,
       <<"pdb_seqres_link", "Optional[str]">>,
       <<"uniprot_sprot_link", "Optional[str]">>,
       <<"uniprot_trembl_link", "Optional[str]">>,
       <<"colabfold_db_link", "Optional[str]">>,
       <<"uniref30_colabfold_link", "Optional[str]">>,
       <<"esmfold_3B_v1", "Optional[str]">>,
       <<"esm2_t36_3B_UR50D", "Optional[str]">>,
       <<"esm2_t36_3B_UR50D_contact_regression", "Optional[str]">> >>

\* the keyword arguments of the call nextflow_runtime(...) in the workflow
\* body: <<keyword, the variable passed>>
KeywordArguments ==
    << <<"run_name", "run_name">>,
       <<"pvc_name", "pvc_name">>,
       <<"input", "input">>,
       <<"outdir", "outdir">>,
       <<"mode", "mode">>,
       <<"use_gpu", "use_gpu">>,
       <<"email", "email">>,
       <<"multiqc_title", "multiqc_title">>,
       <<"max_template_date", "max_template_date">>,
       <<"alphafold2_db", "alphafold2_db">>,
       <<"full_dbs", "full_dbs">>,
       <<"alphafold2_mode", "alphafold2_mode">>,
       <<"alphafold2_model_preset", "alphafold2_model_preset">>,
       <<"colabfold_db", "colabfold_db">>,
       <<"colabfold_server", "colabfold_server">>,
       <<"colabfold_model_preset", "colabfold_model_preset">>,
       <<"num_recycles_colabfold", "num_recycles_colabfold">>,
       <<"use_amber", "use_amber">>,
       <<"db_load_mode", "db_load_mode">>,
       <<"host_url", "host_url">>,
       <<"use_templates", "use_templates">>,
       <<"create_colabfold_index", "create_colabfold_index">>,
       <<"esmfold_db", "esmfold_db">>,
       <<"num_recycles_esmfold", "num_recycles_esmfold">>,
       <<"esmfold_model_preset", "esmfold_model_preset">>,
       <<"skip_multiqc", "skip_multiqc">>,
       <<"bfd_link", "bfd_link">>,
       <<"small_bfd_link", "small_bfd_link">>,
       <<"alphafold2_params_link", "alphafold2_params_link">>,
       <<"mgnify_link", "mgnify_link">>,
       <<"pdb70_link", "pdb70_link">>,
       <<"pdb_mmcif_link", "pdb_mmcif_link">>,
       <<"pdb_obsolete_link", "pdb_obsolete_link">>,
       <<"uniref30_alphafold2_link", "uniref30_alphafold2_link">>,
       <<"uniref90_link", "uniref90_link">>,
       <<"pdb_seqres_link", "pdb_seqres_link">>,
       <<"uniprot_sprot_link", "uniprot_sprot_link">>,
       <<"uniprot_trembl_link", "uniprot_trembl_link">>,
       <<"bfd_path", "bfd_path">>,
       <<"small_bfd_path", "small_bfd_path">>,
       <<"alphafold2_params_path", "alphafold2_params_path">>,
       <<"mgnify_path", "mgnify_path">>,
       <<"pdb70_path", "pdb70_path">>,
       <<"pdb_mmcif_path", "pdb_mmcif_path">>,
       <<"uniref30_alphafold2_path", "uniref30_alphafold2_path">>,
       <<"uniref90_path", "uniref90_path">>,
       <<"pdb_seqres_path", "pdb_seqres_path">>,
       <<"uniprot_path", "uniprot_path">>,
       <<"colabfold_db_link", "colabfold_db_link">>,
       <<"uniref30_colabfold_link", "uniref30_colabfold_link">>,
       <<"colabfold_alphafold2_params_link", "colabfold_alphafold2_params_link">>,
       <<"colabfold_db_path", "colabfold_db_path">>,
       <<"uniref30_colabfold_path", "uniref30_colabfold_path">>,
       <<"colabfold_alphafold2_params_path", "colabfold_alphafold2_params_path">>,
       <<"colabfold_alphafold2_params_tags", "colabfold_alphafold2_params_tags">>,
       <<"esmfold_3B_v1", "esmfold_3B_v1">>,
       <<"esm2_t36_3B_UR50D", "esm2_t36_3B_UR50D">>,
       <<"esm2_t36_3B_UR50D_contact_regression", "esm2_t36_3B_UR50D_contact_regression">>,
       <<"esmfold_params_path", "esmfold_params_path">>,
       <<"multiqc_methods_description", "multiqc_methods_description">> >>

\* mutant of RuntimeArgs: two keyword arguments given each other's variable
RuntimeArgsCrossed(w) ==
    [p \in RuntimeParams |->
       w[IF p = "email" THEN "multiqc_title"
         ELSE IF p = "multiqc_title" THEN "email"
         ELSE p]]

\* the variable the call passes under keyword p
PassedAs(p) ==
    LET k == CHOOSE i \in DOMAIN KeywordArguments : KeywordArguments[i][1] = p
    IN  KeywordArguments[k][2]

\* the arguments nextflow_runtime receives when the workflow was called with
\* the bindings w (pvc_name, the result of initialize(), aside)
RuntimeArgs(w) == [p \in RuntimeParams |-> w[PassedAs(p)]]

(***************************************************************************)
(* Stringification.  str(x) of an int is its decimal numeral, computed     *)
(* digit by digit; str(x) of a str is x itself.                            *)
(***************************************************************************)
DigitChar == <<"0", "1", "2", "3", "4", "5", "6", "7", "8", "9">>

RECURSIVE NatToStr(_)
NatToStr(k) ==
    IF k < 10 THEN DigitChar[k + 1]
    ELSE NatToStr(k \div 10) \o DigitChar[(k % 10) + 1]

IntToStr(k) == IF k < 0 THEN "-" \o NatToStr(-k) ELSE NatToStr(k)

\* str(val) for the values get_flag falls through to
PyStr(val) == IF val.t = "int" THEN IntToStr(val.n) ELSE val.s

(***************************************************************************)
(* latch_cli.nextflow.workflow.get_flag, the Flag Translator: imported by  *)
(* the entrypoint, its body is not among the repository's files.           *)
(***************************************************************************)
get_flag(name, val) ==
    LET flag == "--" \o name
    IN  CASE val.t = "none" -> <<>>
          [] val.t = "bool" -> IF val.b THEN <<flag>> ELSE <<>>
          [] val.t \in {"file", "dir"} -> <<flag, val.s>>
          [] val.t = "mode" -> <<flag, val.s>>
          [] OTHER -> <<flag, PyStr(val)>>

(***************************************************************************)
(* nextflow_runtime: the command line.                                     *)
(***************************************************************************)
shared_dir == "/nf-workdir"

\* mutant of profile_list: no profile listed
profile_list_empty == <<>>

profile_list == <<"docker", "test">>

RECURSIVE JoinWith(_, _)
\* sep.join(xs)
JoinWith(sep, xs) ==
    IF Len(xs) = 0 THEN ""
    ELSE IF Len(xs) = 1 THEN xs[1]
    ELSE xs[1] \o sep \o JoinWith(sep, Tail(xs))

profiles ==
    LET pl == IF Len(profile_list) = 0 THEN Append(profile_list, "standard")
              ELSE profile_list
    IN  JoinWith(",", pl)

\* the tokens of cmd before the first get_flag call
LeadingTokens ==
    << "/root/nextflow", "run", shared_dir \o "/main.nf", "-work-dir", shared_dir,
       "-profile", profiles, "-c", "latch.config", "-resume" >>

\* mutant of FlagArg: use_templates passed under the flag use_amber
FlagArgCopyPaste(a, call) ==
    IF call[1] = "outdir"
    THEN LatchDirV(a["outdir"].s \o "/" \o PyStr(a["run_name"]))
    ELSE IF call[1] = "use_amber" THEN a["use_templates"]
    ELSE a[call[2]]

\* mutant of FlagArg: num_recycles_esmfold passed under num_recycles_colabfold
FlagArgWrongRecycles(a, call) ==
    IF call[1] = "outdir"
    THEN LatchDirV(a["outdir"].s \o "/" \o PyStr(a["run_name"]))
    ELSE IF call[1] = "num_recycles_colabfold" THEN a["num_recycles_esmfold"]
    ELSE a[call[2]]

\* mutant of FlagArg: an absent email replaced by the empty string
FlagArgNoneAsEmpty(a, call) ==
    IF call[1] = "outdir"
    THEN LatchDirV(a["outdir"].s \o "/" \o PyStr(a["run_name"]))
    ELSE IF call[1] = "email" /\ a["email"] = None THEN StrV("")
    ELSE a[call[2]]

\* the second argument of one get_flag call, for the arguments a
FlagArg(a, call) ==
    IF call[1] = "outdir"
    THEN LatchDirV(a["outdir"].s \o "/" \o PyStr(a["run_name"]))
    ELSE a[call[2]]

RECURSIVE Flatten(_)
\* the list [*s1, *s2, ...] of a sequence of token sequences
Flatten(ss) ==
    IF Len(ss) = 0 THEN <<>>
    ELSE IF Len(ss) = 1 THEN ss[1]
    ELSE LET h == Len(ss) \div 2
         IN  Flatten(SubSeq(ss, 1, h)) \o Flatten(SubSeq(ss, h + 1, Len(ss)))

\* mutant of FlagSegments: the calls for use_gpu and email in the other order
FlagSegmentsSwapped(a) ==
    [i \in 1..Len(FlagCalls) |->
        LET j == IF i = 4 THEN 5 ELSE IF i = 5 THEN 4 ELSE i
        IN  get_flag(FlagCalls[j][1], FlagArg(a, FlagCalls[j]))]

\* the tokens each get_flag call contributes, call by call
FlagSegments(a) ==
    [i \in 1..Len(FlagCalls) |-> get_flag(FlagCalls[i][1], FlagArg(a, FlagCalls[i]))]

\* cmd = [...leading tokens..., *get_flag(...), ...]
BuildCmd(a) == LeadingTokens \o Flatten(FlagSegments(a))

(***************************************************************************)
(* The state of one run.                                                   *)
(***************************************************************************)
VARIABLES
    pc,          \* where the run is: start, runtime, staged, built, report_log,
                 \* report_size, finish, done
    token,       \* whether FLYTE_INTERNAL_EXECUTION_ID is set in os.environ
    requests,    \* HTTP requests initialize has issued
    resp,        \* the response to the provisioning request
    pvc_name,    \* what initialize returned (NoHandle: nothing)
    args,        \* the arguments bound to the workflow's parameters
    cmd,         \* the command line built by nextflow_runtime
    launches,    \* how many times the pipeline subprocess was launched
    run,         \* how the pipeline subprocess resolved
    failed,      \* the local variable failed of nextflow_runtime
    pending,     \* an exception raised in the try block, propagating
    log,         \* the log upload step: what it found and did
    staging,     \* how rename_current_execution and copytree resolved
    size,        \* the size step: how du resolved and what was reported
    printed,     \* the messages of the reporting phase, in order
    steps,       \* the steps taken so far, in order
    exitStatus,  \* how the run ended: none, exit0, exit1, raised
    environ,     \* os.environ of the task running nextflow_runtime
    fs,          \* /root, the shared workspace, and what copytree did
    child        \* the environment and directory given to the subprocess

vars ==
    << pc, token, requests, resp, pvc_name, args, staging, cmd, launches, run,
       failed, pending, log, size, printed, steps, exitStatus, environ, fs,
       child >>

NoHandle == ""
NoResp == [status |-> 0, body |-> "none", name |-> ""]
NoRun == [state |-> "none", rc |-> 0]
NoLog == [exists |-> FALSE, name |-> "unset", remote |-> "", upload |-> "none"]
NoSize == [du |-> "none", usage |-> "none"]

(***************************************************************************)
(* The inputs of a run.                                                    *)
(***************************************************************************)
StrValues == {"", "x", "--email", "--use_gpu"}
IntValues == {-MaxInt, -1, 0, 3, 10, MaxInt}

\* the values a caller can bind to parameter p
Domain(p) ==
    CASE p \in StrParams -> {StrV("run1"), StrV("r-2")}
      [] p \in LatchFileParams -> {LatchFileV("latch:///in.csv")}
      [] p \in LatchOutputDirParams -> {LatchDirV("latch:///out")}
      [] p \in ModeParams -> {ModeV(m) : m \in DOMAIN Mode}
      [] p \in BoolParams -> {BoolV(TRUE), BoolV(FALSE)}
      [] p \in OptStrParams -> {None} \cup {StrV(x) : x \in StrValues}
      [] p \in OptIntParams -> {None} \cup {IntV(k) : k \in IntValues}
      [] p \in OptLatchDirParams -> {None, LatchDirV("latch:///db")}
      [] p \in OptLatchFileParams -> {None, LatchFileV("latch:///methods.yml")}

\* every optional argument absent, every switch off
AllAbsent ==
    [p \in RuntimeParams |->
        CASE p \in StrParams -> StrV("run1")
          [] p \in LatchFileParams -> LatchFileV("latch:///in.csv")
          [] p \in LatchOutputDirParams -> LatchDirV("latch:///out")
          [] p \in ModeParams -> ModeV("alphafold2")
          [] p \in BoolParams -> BoolV(FALSE)
          [] OTHER -> None]

\* every optional argument present, every switch on
AllPresent ==
    [p \in RuntimeParams |->
        CASE p \in StrParams -> StrV("run1")
          [] p \in LatchFileParams -> LatchFileV("latch:///in.csv")
          [] p \in LatchOutputDirParams -> LatchDirV("latch:///out")
          [] p \in ModeParams -> ModeV("colabfold")
          [] p \in BoolParams -> BoolV(TRUE)
          [] p \in OptStrParams -> StrV("x")
          [] p \in OptIntParams -> IntV(3)
          [] p \in OptLatchDirParams -> LatchDirV("latch:///db")
          [] p \in OptLatchFileParams -> LatchFileV("latch:///methods.yml")]

BaseBindings == {AllAbsent, AllPresent}

\* one argument bound to one of its values
Choices == UNION {{<<p, v>> : v \in Domain(p)} : p \in RuntimeParams}

RECURSIVE Override(_, _)
\* the binding b with the choices cs applied, one after the other
Override(b, cs) ==
    IF Len(cs) = 0 THEN b
    ELSE Override([b EXCEPT ![Head(cs)[1]] = Head(cs)[2]], Tail(cs))

HttpStatuses == {200, 201, 400, 404, 500, 503}
\* a JSON object with the key name, a JSON object without it, not JSON
Bodies == {"json_name", "json_other", "not_json"}
Handles == {"nf-pvc-1"}
\* how subprocess.run(cmd, check=True) can resolve: the exit status of the
\* child, or an OSError raised launching it
RunOutcomes ==
    {[state |-> "exited", rc |-> c] : c \in {0, 1, 137}}
    \cup {[state |-> "oserror", rc |-> 0]}

(***************************************************************************)
(* initialize()                                                            *)
(***************************************************************************)
\* mutant of raise_for_status: the status check left out
raise_for_status_skipped(status) == FALSE

\* resp.raise_for_status() raises HTTPError on a 4xx or 5xx status
raise_for_status(status) == status >= 400

\* resp.json()["name"] raises unless the body is a JSON object with the key
HasName(body) == body = "json_name"

Initialize ==
    /\ pc = "start"
    /\ steps' = Append(steps, "initialize")
    /\ IF ~token
       THEN /\ pc' = "done"
            /\ exitStatus' = "raised"
            /\ UNCHANGED <<requests, resp, pvc_name>>
       ELSE /\ requests' = requests + 1
            /\ \/ \* requests.post raises: no response arrives
                  /\ resp' = NoResp
                  /\ pc' = "done"
                  /\ exitStatus' = "raised"
                  /\ UNCHANGED pvc_name
               \/ \E status \in HttpStatuses, body \in Bodies, name \in Handles :
                    /\ resp' = [status |-> status, body |-> body,
                                name |-> IF HasName(body) THEN name ELSE ""]
                    /\ IF raise_for_status(status) \/ ~HasName(body)
                       THEN /\ pc' = "done"
                            /\ exitStatus' = "raised"
                            /\ UNCHANGED pvc_name
                       ELSE /\ pc' = "runtime"
                            /\ pvc_name' = name
                            /\ UNCHANGED exitStatus
    /\ UNCHANGED <<token, environ, fs, child,
                   args, staging, cmd, launches, run, failed, pending, log,
                   size, printed>>

(***************************************************************************)
(* nextflow_runtime(), step by step                                        *)
(***************************************************************************)
\* the directory trees: a tree is the set of the paths below its root, a
\* path the sequence of its names; an entry with entries below it is a
\* directory
MaxDepth == 2
MaxPaths == 2

EntryNames == {"bin", "work", ".git"}

Range(f) == {f[i] : i \in DOMAIN f}

PathsTo(d) == UNION {[1..n -> EntryNames] : n \in 1..d}

Prefixes(p) == {SubSeq(p, 1, n) : n \in 1..Len(p)}

Closure(ps) == UNION {Prefixes(p) : p \in ps}

Trees ==
    {Closure(Range(f)) : f \in [1..MaxPaths -> PathsTo(MaxDepth) \cup {<<>>}]}

\* what the shared workspace may hold before staging, when it exists
PriorTrees == {Closure(ps) : ps \in SUBSET {<<"bin">>, <<"work">>}}

\* the tree under /root in the lifecycle specification
RootTree == Closure({<<"bin", "work">>, <<"bin", "bin">>, <<".git">>})

Children(tree, d) ==
    {p \in tree : Len(p) = Len(d) + 1 /\ SubSeq(p, 1, Len(d)) = d}

IsDir(tree, p) == Children(tree, p) # {}

ignore_list ==
    << "latch", ".latch", ".git", "nextflow", ".nextflow", "work", "results",
       "miniconda", "anaconda3", "mambaforge" >>

\* mutant of ignore: the denylist applied to the entries of /root only
ignoreAtTopOnly(src, names) == IF src = <<>> THEN Range(ignore_list) ELSE {}

\* ignore=lambda src, names: ignore_list
ignore(src, names) == Range(ignore_list)

dirs_exist_ok == TRUE

\* shutil.copytree: the callback is asked at every directory visited, the
\* entries it names are skipped, a directory kept is copied the same way
RECURSIVE copytree(_, _)
copytree(tree, d) ==
    LET entries == Children(tree, d)
        ignored_names == ignore(d, {p[Len(p)] : p \in entries})
        kept == {p \in entries : p[Len(p)] \notin ignored_names}
    IN  kept \cup UNION {copytree(tree, p) : p \in {q \in kept : IsDir(tree, q)}}

\* os.makedirs(dst, exist_ok=dirs_exist_ok) at the start of copytree
MakedirsError(existed) ==
    IF existed /\ ~dirs_exist_ok THEN "FileExistsError" ELSE "none"

\* the copies an interrupted copytree can leave behind
PartialCopies(full) == {part \in SUBSET full : Closure(part) = part}

NoFs == [src |-> RootTree, existed |-> FALSE, dst |-> {}, copied |-> {},
         error |-> "none"]

\* mutant of AfterStage: a staging error caught and ignored
AfterStageIgnoringErrors(outcome) == "staged"

\* an exception of rename_current_execution or shutil.copytree leaves the
\* function; otherwise the command is built next
AfterStage(outcome) == IF outcome = "ok" THEN "staged" ELSE "done"

StageWorkspace ==
    /\ pc = "runtime"
    /\ \E io \in {"ok", "raised"} :
         LET full == copytree(fs.src, <<>>)
             error == IF MakedirsError(fs.existed) # "none"
                      THEN MakedirsError(fs.existed)
                      ELSE IF io = "raised" THEN "OSError" ELSE "none"
             outcome == IF error = "none" THEN "ok" ELSE "raised"
         IN  /\ staging' = outcome
             /\ \E done \in IF error = "none" THEN {full}
                            ELSE IF error = "OSError" THEN PartialCopies(full)
                            ELSE {{}} :
                  fs' = [fs EXCEPT !.copied = done,
                                   !.dst = fs.dst \cup done,
                                   !.error = error]
             /\ pc' = AfterStage(outcome)
             /\ exitStatus' = IF AfterStage(outcome) = "done" THEN "raised"
                              ELSE exitStatus
    /\ steps' = Append(steps, "stage")
    /\ UNCHANGED <<token, environ, child,
                   requests, resp, pvc_name, args, cmd, launches, run,
                   failed, pending, log, size, printed>>

BuildCommand ==
    /\ pc = "staged"
    /\ cmd' = BuildCmd(RuntimeArgs(args))
    /\ pc' = "built"
    /\ steps' = Append(steps, "build")
    /\ UNCHANGED <<token, environ, fs, child,
                   requests, resp, pvc_name, args, staging, launches, run,
                   failed, pending, log, size, printed, exitStatus>>

\* the ambient environment: os.environ when nextflow_runtime runs; up to
\* MaxPreset of the NXF_ variables are already defined in it
MaxPreset == 1

AmbientOnly == [PATH |-> "/usr/local/bin:/usr/bin", HOME |-> "/root"]

NxfNames ==
    {"NXF_ANSI_LOG", "NXF_HOME", "NXF_OPTS", "NXF_DISABLE_CHECK_LATEST",
     "NXF_ENABLE_VIRTUAL_THREADS"}

AmbientEnvs ==
    {[k \in DOMAIN AmbientOnly \cup preset |->
         IF k \in preset THEN "ambient" ELSE AmbientOnly[k]] :
       preset \in {s \in SUBSET NxfNames : Cardinality(s) <= MaxPreset}}

\* the entries written after **os.environ in the dict display
NxfSettings ==
    [NXF_ANSI_LOG |-> "false",
     NXF_HOME |-> "/root/.nextflow",
     NXF_OPTS |-> "-Xms1536M -Xmx6144M -XX:ActiveProcessorCount=4",
     NXF_DISABLE_CHECK_LATEST |-> "true",
     NXF_ENABLE_VIRTUAL_THREADS |-> "false"]

\* a dict display {**first, **second}: a later entry replaces an earlier one
DictDisplay(first, second) ==
    [k \in DOMAIN first \cup DOMAIN second |->
       IF k \in DOMAIN second THEN second[k] ELSE first[k]]

\* mutant of SubprocessEnv: os.environ unpacked after the NXF_ entries
SubprocessEnvAmbientLast(ambient) == DictDisplay(NxfSettings, ambient)

\* env = {**os.environ, "NXF_ANSI_LOG": "false", ...}
SubprocessEnv(ambient) == DictDisplay(ambient, NxfSettings)

NoChild == [env |-> [k \in {} |-> ""], cwd |-> ""]

\* what subprocess.run(..., check=True) raises
RunException(r) ==
    IF r.state = "oserror" THEN "OSError"
    ELSE IF r.rc # 0 THEN "CalledProcessError"
    ELSE "none"

\* except subprocess.CalledProcessError: failed = True
CaughtAsFailed(exc) == exc = "CalledProcessError"

\* mutant of AfterRun: the reporting block after the try statement instead of
\* in a finally clause, so that an uncaught exception skips it
AfterRunNoFinally(exc) == IF exc = "OSError" THEN "done" ELSE "report_log"

\* mutant of AfterRun: a failed pipeline launched again
AfterRunRetry(exc) ==
    IF exc = "CalledProcessError" THEN "built" ELSE "report_log"

\* try: ... finally: the reporting block runs however the try block ended
AfterRun(exc) == "report_log"

RunPipeline ==
    /\ pc = "built"
    /\ \E r \in RunOutcomes :
         LET exc == RunException(r)
         IN  /\ run' = r
             /\ failed' = CaughtAsFailed(exc)
             /\ pending' = (exc # "none" /\ ~CaughtAsFailed(exc))
             /\ pc' = AfterRun(exc)
             /\ exitStatus' = IF AfterRun(exc) = "done" THEN "raised"
                              ELSE exitStatus
    /\ launches' = launches + 1
    /\ child' = [env |-> SubprocessEnv(environ), cwd |-> shared_dir]
    /\ steps' = Append(steps, "run")
    /\ UNCHANGED <<token, environ, fs,
                   requests, resp, pvc_name, args, staging, cmd, log, size,
                   printed>>

\* remote.upload_from(nextflow_log) stands in the finally block outside any
\* try: an exception it raises leaves the function at once
AfterUpload(up) == IF up = "raised" THEN "done" ELSE "report_size"

\* urljoins of latch_cli.utils: the parts joined by single slashes
urljoins(parts) == JoinWith("/", parts)

\* LPath(urljoins("latch:///your_log_dir/nf_nf_core_proteinfold", name,
\* "nextflow.log"))
RemoteLog(name) ==
    urljoins(<<"latch:///your_log_dir/nf_nf_core_proteinfold", name,
               "nextflow.log">>)

\* what _get_execution_name() may return: None, or a name
ExecutionNames == {"None", "exec-1"}

\* mutant of LogBranch: the upload attempted whatever the name is
LogBranchNameUnchecked(exists, name) == IF exists THEN "upload" ELSE "nothing"

\* if nextflow_log.exists(): ... if name is None: ... else: ...
LogBranch(exists, name) ==
    IF ~exists THEN "nothing"
    ELSE IF name = "None" THEN "skip"
    ELSE "upload"

\* the first half of the finally block: the upload of .nextflow.log
UploadLog ==
    /\ pc = "report_log"
    /\ \E exists \in BOOLEAN, name \in ExecutionNames, up \in {"ok", "raised"} :
         LET branch == LogBranch(exists, name)
         IN  CASE branch = "nothing" ->
                    /\ log' = [exists |-> FALSE, name |-> "unset",
                               remote |-> "", upload |-> "none"]
                    /\ pc' = "report_size"
                    /\ UNCHANGED <<printed, exitStatus>>
               [] branch = "skip" ->
                    /\ log' = [exists |-> TRUE, name |-> name, remote |-> "",
                               upload |-> "skipped"]
                    /\ printed' = Append(printed, "skipping_logs_upload")
                    /\ pc' = "report_size"
                    /\ UNCHANGED exitStatus
               [] branch = "upload" ->
                    /\ log' = [exists |-> TRUE, name |-> name,
                               remote |-> RemoteLog(name), upload |-> up]
                    /\ printed' = Append(printed, "uploading_log")
                    /\ pc' = AfterUpload(up)
                    /\ exitStatus' = IF AfterUpload(up) = "done" THEN "raised"
                                     ELSE exitStatus
    /\ steps' = Append(steps, "log")
    /\ UNCHANGED <<token, environ, fs, child,
                   requests, resp, pvc_name, args, staging, cmd, launches,
                   run, failed, pending, size>>

\* the except clauses around the size measurement: what each one prints
SizeHandler(exc) ==
    CASE exc = "TimeoutExpired" -> "size_timed_out"
      [] exc = "CalledProcessError" -> "size_failed_stderr"
      [] OTHER -> "size_failed"

\* mutant of UsageReport: the report made whatever du did
UsageReportUnconditional(du, usage) ==
    IF usage = "ok" THEN "reported" ELSE "raised"

\* report_nextflow_used_storage(size) stands after du and int(...) in the try
\* block: an exception of either skips it
UsageReport(du, usage) ==
    IF du # "ok" THEN "none"
    ELSE IF usage = "ok" THEN "reported"
    ELSE "raised"

\* the second half of the finally block: du -sb and the usage report
MeasureSize ==
    /\ pc = "report_size"
    /\ \E du \in {"ok", "TimeoutExpired", "CalledProcessError", "Exception"},
          usage \in {"ok", "Exception"} :
         LET exc == IF du # "ok" THEN du
                    ELSE IF usage # "ok" THEN usage
                    ELSE "none"
         IN  /\ size' = [du |-> du, usage |-> UsageReport(du, usage)]
             /\ printed' = Append(printed, IF exc = "none" THEN "size_done"
                                           ELSE SizeHandler(exc))
    /\ pc' = "finish"
    /\ steps' = Append(steps, "size")
    /\ UNCHANGED <<token, environ, fs, child,
                   requests, resp, pvc_name, args, staging, cmd, launches,
                   run, failed, pending, log, exitStatus>>

\* after the finally block: a pending exception propagates; otherwise
\* if failed: sys.exit(1), and the function returns
ExitOf(isPending, isFailed) ==
    IF isPending THEN "raised" ELSE IF isFailed THEN "exit1" ELSE "exit0"

Finish ==
    /\ pc = "finish"
    /\ exitStatus' = ExitOf(pending, failed)
    /\ pc' = "done"
    /\ steps' = Append(steps, "finish")
    /\ UNCHANGED <<token, environ, fs, child,
                   requests, resp, pvc_name, args, staging, cmd, launches,
                   run, failed, pending, log, size, printed>>

(***************************************************************************)
(* One run of the workflow: nf_nf_core_proteinfold calls initialize() and  *)
(* passes its result and its own arguments to nextflow_runtime().          *)
(***************************************************************************)
Init ==
    /\ pc = "start"
    /\ token \in BOOLEAN
    /\ requests = 0
    /\ resp = NoResp
    /\ pvc_name = NoHandle
    /\ args \in BaseBindings
    /\ staging = "none"
    /\ cmd = <<>>
    /\ launches = 0
    /\ run = NoRun
    /\ failed = FALSE
    /\ pending = FALSE
    /\ log = NoLog
    /\ size = NoSize
    /\ printed = <<>>
    /\ steps = <<>>
    /\ exitStatus = "none"
    /\ environ \in AmbientEnvs
    /\ fs = NoFs
    /\ child = NoChild

Next ==
    \/ Initialize
    \/ StageWorkspace
    \/ BuildCommand
    \/ RunPipeline
    \/ UploadLog
    \/ MeasureSize
    \/ Finish

Spec == Init /\ [][Next]_vars

(***************************************************************************)
(* The command line alone: nextflow_runtime has been entered and the       *)
(* workspace is staged; the arguments range over the bindings within       *)
(* MaxVaried arguments of a base binding.                                  *)
(***************************************************************************)
InitCmd ==
    /\ pc = "staged"
    /\ token = TRUE
    /\ requests = 1
    /\ resp = [status |-> 200, body |-> "json_name", name |-> "nf-pvc-1"]
    /\ pvc_name = "nf-pvc-1"
    /\ \E b \in BaseBindings, cs \in [1..MaxVaried -> Choices] :
         args = Override(b, cs)
    /\ staging = "ok"
    /\ cmd = <<>>
    /\ launches = 0
    /\ run = NoRun
    /\ failed = FALSE
    /\ pending = FALSE
    /\ log = NoLog
    /\ size = NoSize
    /\ printed = <<>>
    /\ steps = <<"initialize", "stage">>
    /\ exitStatus = "none"
    /\ environ = AmbientOnly
    /\ fs = [NoFs EXCEPT !.copied = copytree(RootTree, <<>>),
                         !.dst = copytree(RootTree, <<>>)]
    /\ child = NoChild

NextCmd == BuildCommand

SpecCmd == InitCmd /\ [][NextCmd]_vars

(***************************************************************************)
(* The staging step alone: initialize() has returned, /root holds any of   *)
(* the trees within the bounds, and the shared workspace is new or holds   *)
(* the entries of an earlier use.                                          *)
(***************************************************************************)
InitStage ==
    /\ pc = "runtime"
    /\ token = TRUE
    /\ requests = 1
    /\ resp = [status |-> 200, body |-> "json_name", name |-> "nf-pvc-1"]
    /\ pvc_name = "nf-pvc-1"
    /\ args = AllAbsent
    /\ staging = "none"
    /\ cmd = <<>>
    /\ launches = 0
    /\ run = NoRun
    /\ failed = FALSE
    /\ pending = FALSE
    /\ log = NoLog
    /\ size = NoSize
    /\ printed = <<>>
    /\ steps = <<"initialize">>
    /\ exitStatus = "none"
    /\ environ = AmbientOnly
    /\ \E src \in Trees, existed \in BOOLEAN, prior \in PriorTrees :
         fs = [src |-> src, existed |-> existed,
               dst |-> IF existed THEN prior ELSE {}, copied |-> {},
               error |-> "none"]
    /\ child = NoChild

NextStage == StageWorkspace

SpecStage == InitStage /\ [][NextStage]_vars

(***************************************************************************)
(* Properties of the run's lifecycle (specification Spec).                 *)
(***************************************************************************)
Has(seq, x) == \E i \in 1..Len(seq) : seq[i] = x

\* the Pipeline Invoker resolved to Failed: the subprocess exited non-zero,
\* or launching it raised
InvokerFailed == run.state = "oserror" \/ (run.state = "exited" /\ run.rc # 0)

\* C1: whenever the pipeline subprocess step has resolved (exit 0, exit
\* non-zero, or an exception raised launching it), the step taken next is the
\* log upload step of the reporting phase, and the size measurement step
\* follows it unless the upload itself raised.
C1_ReportingEnteredAfterRun ==
    /\ (run.state # "none") <=> Has(steps, "run")
    /\ \A i \in 1..Len(steps) :
         steps[i] = "run" =>
           /\ i = Len(steps) => pc = "report_log"
           /\ i < Len(steps) => steps[i + 1] = "log"
           /\ (i + 1 = Len(steps) /\ log.upload # "raised") => pc = "report_size"
           /\ i + 1 < Len(steps) => steps[i + 2] = "size"

C1_Witness ==
    /\ run.state = "oserror"
    /\ Has(steps, "log")
    /\ Has(steps, "size")

\* C2: for every run that reached the subprocess step and has ended, the exit
\* code is 1 if and only if the Pipeline Invoker resolved to Failed, and a
\* subprocess that exited 0 ends the run with exit code 0.
C2_ExitOneIffFailed ==
    (pc = "done" /\ launches > 0) =>
        /\ (exitStatus = "exit1") <=> InvokerFailed
        /\ (run.state = "exited" /\ run.rc = 0) => exitStatus = "exit0"

\* C3: a failure inside the reporting phase (no execution name, log upload,
\* size measurement, usage report) stops no later reporting step and leaves
\* the exit code the one the subprocess outcome determines.
C3_ReportingFailuresSwallowed ==
    (pc = "done" /\ launches > 0) =>
        /\ Has(steps, "log") /\ Has(steps, "size")
        /\ exitStatus = (IF failed THEN "exit1" ELSE "exit0")
           \/ (pending /\ exitStatus = "raised")

\* C4: the Pipeline Invoker resolves to Failed when the subprocess exits
\* non-zero and when launching it raises an I/O error: the failure is
\* recorded and the run ends with exit code 1 after the reporting phase.
C4_FailedRecordedAndExitOne ==
    InvokerFailed =>
        /\ failed
        /\ pc = "done" => (exitStatus = "exit1" /\ Has(steps, "size"))

\* C5: the subprocess is launched only after initialize returned a handle and
\* staging completed; when the credential is missing, provisioning fails or
\* staging fails, the run has ended with the exception, no command was built
\* and no subprocess was launched.
C5_LaunchOnlyAfterProvisionAndStaging ==
    /\ launches > 0 => (token /\ pvc_name # NoHandle /\ staging = "ok")
    /\ (Has(steps, "initialize") /\ pvc_name = NoHandle) =>
           (pc = "done" /\ exitStatus = "raised" /\ staging = "none"
            /\ cmd = <<>> /\ launches = 0 /\ ~Has(steps, "run"))
    /\ staging = "raised" =>
           (pc = "done" /\ exitStatus = "raised" /\ cmd = <<>> /\ launches = 0
            /\ ~Has(steps, "run"))

C5_Witness == staging = "raised" /\ pvc_name # NoHandle /\ pc = "done"

FlagOf == [p \in RuntimeParams |-> "--" \o p]

FlagTokens == {FlagOf[p] : p \in RuntimeParams}

ParamOfFlag == [tok \in FlagTokens |-> CHOOSE p \in RuntimeParams : FlagOf[p] = tok]

\* the parameter whose flag tok is ("?": tok is no flag)
NameOfFlag(tok) == IF tok \in FlagTokens THEN ParamOfFlag[tok] ELSE "?"

Unreadable(tok) == [name |-> "?", hasValue |-> FALSE, value |-> tok]

\* whether the token at position i is taken as the value of the option
\* before it: the token before it is the flag of a non-boolean parameter and
\* is not itself taken as a value
RECURSIVE IsValueAt(_, _, _)
IsValueAt(toks, first, i) ==
    IF i <= first THEN FALSE
    ELSE LET p == NameOfFlag(toks[i - 1])
         IN  /\ p # "?"
             /\ ParamType(p) # "bool"
             /\ ~IsValueAt(toks, first, i - 1)

\* the option that starts at position i
OptionAt(toks, i) ==
    LET p == NameOfFlag(toks[i])
    IN  IF p = "?" THEN Unreadable(toks[i])
        ELSE IF ParamType(p) = "bool"
        THEN [name |-> p, hasValue |-> FALSE, value |-> ""]
        ELSE IF i = Len(toks) THEN Unreadable(toks[i])
        ELSE [name |-> p, hasValue |-> TRUE, value |-> toks[i + 1]]

\* the options of toks from position first on, in order
ReadOptions(toks, first) ==
    LET positions == [k \in 1..(Len(toks) - first + 1) |-> first + k - 1]
        starts == SelectSeq(positions, LAMBDA i : ~IsValueAt(toks, first, i))
    IN  [k \in 1..Len(starts) |-> OptionAt(toks, starts[k])]

\* the tokens every command starts with
FixedLeadingTokens ==
    << "/root/nextflow", "run", "/nf-workdir/main.nf", "-work-dir", "/nf-workdir",
       "-profile", "docker,test", "-c", "latch.config", "-resume" >>

Options(c) == ReadOptions(c, Len(FixedLeadingTokens) + 1)

WellRead(opts) == \A i \in 1..Len(opts) : opts[i].name # "?"

OptionsNamed(opts, p) == {i \in 1..Len(opts) : opts[i].name = p}

\* int(text): an optional sign and decimal digits, valued digit by digit
RECURSIVE DigitsValue(_)
DigitsValue(ds) ==
    IF Len(ds) = 0 THEN 0
    ELSE 10 * DigitsValue(SubSeq(ds, 1, Len(ds) - 1)) + ds[Len(ds)]

RECURSIVE DigitsText(_)
DigitsText(ds) ==
    IF Len(ds) = 0 THEN "" ELSE DigitChar[ds[1] + 1] \o DigitsText(Tail(ds))

IntLiterals ==
    {[text |-> sg \o DigitsText(ds),
      value |-> (IF sg = "-" THEN -1 ELSE 1) * DigitsValue(ds)] :
        sg \in {"", "-", "+"}, ds \in UNION {[1..m -> 0..9] : m \in 1..MaxDigits}}

\* the integers text denotes: one, or none when text is no numeral
ParseInt(text) == {l.value : l \in {m \in IntLiterals : m.text = text}}

\* the value a token denotes for a parameter of type ty, read back: a str is
\* its own text, an int is parsed, a Mode is looked up by member name
ParseBack(ty, text) ==
    CASE ty \in {"str", "Optional[str]"} -> {StrV(text)}
      [] ty = "Optional[int]" -> {IntV(k) : k \in ParseInt(text)}
      [] ty = "Mode" -> {ModeV(m) : m \in {x \in DOMAIN Mode : x = text}}
      [] OTHER -> {}

\* C7 (as amended): for every boolean parameter, reading the options of the
\* command: when its value is true there is exactly one option --<name>, and
\* it has no value; when its value is false there is no option --<name>.
C7_BooleanSwitches ==
    pc = "built" =>
        LET opts == Options(cmd)
        IN  /\ WellRead(opts)
            /\ \A p \in BoolParams :
                 IF args[p].b
                 THEN /\ Cardinality(OptionsNamed(opts, p)) = 1
                      /\ \A i \in OptionsNamed(opts, p) : ~opts[i].hasValue
                 ELSE OptionsNamed(opts, p) = {}

C7_Witness ==
    /\ pc = "built"
    /\ args["use_amber"].b
    /\ ~args["use_gpu"].b
    /\ \E i \in 1..Len(cmd) : cmd[i] = "--use_amber"

\* C7 as stated: true puts the token --<name> in the command, followed by the
\* end of the command or by another flag; false leaves no token --<name>
\* anywhere in the command.
C7_Original ==
    pc = "built" =>
        \A p \in BoolParams :
            IF args[p].b
            THEN \E i \in 1..Len(cmd) :
                    /\ cmd[i] = FlagOf[p]
                    /\ i < Len(cmd) => NameOfFlag(cmd[i + 1]) # "?"
            ELSE \A i \in 1..Len(cmd) : cmd[i] # FlagOf[p]

\* C8: for every string, integer or enum parameter passed to get_flag with a
\* present value, the command has exactly one option --<name>, its value
\* token is the stringified value, and reading the token back (a Mode by its
\* member name) gives the original value.
C8_ScalarRoundTrip ==
    pc = "built" =>
        LET opts == Options(cmd)
        IN  /\ WellRead(opts)
            /\ \A p \in OptStrParams \cup OptIntParams \cup ModeParams :
                 args[p] # None =>
                   /\ Cardinality(OptionsNamed(opts, p)) = 1
                   /\ \A i \in OptionsNamed(opts, p) :
                        /\ opts[i].hasValue
                        /\ ParseBack(ParamType(p), opts[i].value) = {args[p]}

C8_Witness ==
    /\ pc = "built"
    /\ args["num_recycles_colabfold"] = IntV(-MaxInt)
    /\ \E i \in 1..(Len(cmd) - 1) :
         /\ cmd[i] = "--num_recycles_colabfold"
         /\ cmd[i + 1] = IntToStr(-MaxInt)

\* C9 (as amended): for every optional parameter whose value is None, the
\* command has no option --<name>: a token --<name> occurs in it only as the
\* value of another parameter's option.
C9_AbsentOmitted ==
    pc = "built" =>
        LET opts == Options(cmd)
        IN  /\ WellRead(opts)
            /\ \A p \in OptionalParams :
                 args[p] = None => OptionsNamed(opts, p) = {}

C9_Witness ==
    /\ pc = "built"
    /\ args["email"] = None
    /\ args["multiqc_title"] = StrV("--email")
    /\ \E i \in 1..Len(cmd) : cmd[i] = "--email"

\* C9 as stated: for an optional parameter whose value is None, no token
\* --<name> appears anywhere in the command.
C9_Original ==
    pc = "built" =>
        \A p \in OptionalParams :
            args[p] = None => \A i \in 1..Len(cmd) : cmd[i] # FlagOf[p]

\* an argument get_flag translates to at least one token
Translated(v) == v # None /\ ~(v.t = "bool" /\ ~v.b)

\* C10 (as amended): the command is the fixed leading tokens followed by the
\* options of the registered parameters other than run_name, in registry
\* order, one for each whose argument is present (or true).
C10_RegistryOrder ==
    pc = "built" =>
        LET opts == Options(cmd)
            expected == SelectSeq(generated_parameters,
                                  LAMBDA p : p # "run_name" /\ Translated(args[p]))
        IN  /\ SubSeq(cmd, 1, Len(FixedLeadingTokens)) = FixedLeadingTokens
            /\ WellRead(opts)
            /\ [i \in 1..Len(opts) |-> opts[i].name] = expected

C10_Witness ==
    /\ pc = "built"
    /\ args = AllPresent
    /\ Len(Options(cmd)) = Len(generated_parameters) - 1

\* C10 as stated: the leading tokens followed by the translation of every
\* registered parameter, in registry order.
C10_Original ==
    pc = "built" =>
        cmd = FixedLeadingTokens \o
              Flatten([i \in 1..Len(generated_parameters) |->
                          get_flag(generated_parameters[i],
                                   args[generated_parameters[i]])])
(***************************************************************************)
(* Properties of the reporting phase and of the run as a whole             *)
(* (specification Spec).                                                   *)
(***************************************************************************)
\* the end of the run that the pipeline subprocess alone determines
ExitByPipeline ==
    IF run.state = "oserror" THEN "raised"
    ELSE IF run.rc # 0 THEN "exit1"
    ELSE "exit0"

\* C12: the usage report is attempted only after du succeeded; when du times
\* out or fails, a warning is printed, no usage report is made, and the run
\* ends as the pipeline subprocess's outcome determines.
C12_UsageOnlyAfterMeasurement ==
    /\ size.usage # "none" => size.du = "ok"
    /\ size.du = "TimeoutExpired" =>
         /\ size.usage = "none"
         /\ printed[Len(printed)] = "size_timed_out"
    /\ size.du \in {"CalledProcessError", "Exception"} =>
         /\ size.usage = "none"
         /\ printed[Len(printed)] \in {"size_failed_stderr", "size_failed"}
    /\ (size.du \in {"TimeoutExpired", "CalledProcessError", "Exception"}
          /\ pc = "done") => exitStatus = ExitByPipeline

C12_Witness ==
    /\ pc = "done"
    /\ size.du = "TimeoutExpired"
    /\ run.state = "exited"
    /\ run.rc # 0
    /\ exitStatus = "exit1"

\* C13: the log is uploaded only when .nextflow.log exists and the execution
\* name resolved, and then to <prefix>/<name>/nextflow.log; when the name
\* does not resolve the upload is skipped with a warning and the size
\* measurement is the next step.
C13_LogUpload ==
    /\ log.upload \in {"ok", "raised"} =>
         /\ log.exists
         /\ log.name # "None"
         /\ log.remote = "latch:///your_log_dir/nf_nf_core_proteinfold/"
                            \o log.name \o "/nextflow.log"
    /\ (log.exists /\ log.name = "None") =>
         /\ log.upload = "skipped"
         /\ log.remote = ""
         /\ Has(printed, "skipping_logs_upload")
         /\ ~Has(printed, "uploading_log")
         /\ pc \in {"report_size", "finish", "done"}
         /\ pc # "report_size" => Has(steps, "size")
    /\ (Has(steps, "log") /\ ~log.exists) => log.upload = "none"

C13_Witness ==
    /\ log.exists
    /\ log.name = "None"
    /\ size.du = "ok"
    /\ pc = "done"

Count(seq, x) == Cardinality({i \in 1..Len(seq) : seq[i] = x})

\* C14: within one run the pipeline subprocess is launched at most once,
\* not again after it resolved, and no step of the run (provisioning
\* request, staging, command, launch, log upload, size measurement, exit)
\* is taken twice.
C14_NoStepRepeated ==
    /\ launches <= 1
    /\ launches = Count(steps, "run")
    /\ (run.state # "none") <=> (launches = 1)
    /\ requests <= 1
    /\ \A i, j \in 1..Len(steps) : steps[i] = steps[j] => i = j

C14_Witness ==
    /\ pc = "done"
    /\ launches = 1
    /\ run.state = "exited"
    /\ run.rc # 0
    /\ Has(steps, "finish")

\* C15: the environment given to the pipeline subprocess has the five NXF_
\* variables at their fixed values, whether or not the ambient environment
\* defines them; every other ambient variable is passed with its ambient
\* value, nothing else is added, and the working directory is the shared
\* workspace.
C15_SubprocessEnvironment ==
    launches > 0 =>
      /\ child.env["NXF_ANSI_LOG"] = "false"
      /\ child.env["NXF_HOME"] = "/root/.nextflow"
      /\ child.env["NXF_OPTS"]
           = "-Xms1536M -Xmx6144M -XX:ActiveProcessorCount=4"
      /\ child.env["NXF_DISABLE_CHECK_LATEST"] = "true"
      /\ child.env["NXF_ENABLE_VIRTUAL_THREADS"] = "false"
      /\ DOMAIN child.env
           = DOMAIN environ
               \cup {"NXF_ANSI_LOG", "NXF_HOME", "NXF_OPTS",
                     "NXF_DISABLE_CHECK_LATEST", "NXF_ENABLE_VIRTUAL_THREADS"}
      /\ \A k \in DOMAIN environ :
           k \notin {"NXF_ANSI_LOG", "NXF_HOME", "NXF_OPTS",
                     "NXF_DISABLE_CHECK_LATEST", "NXF_ENABLE_VIRTUAL_THREADS"}
             => child.env[k] = environ[k]
      /\ child.cwd = "/nf-workdir"

C15_Witness ==
    /\ launches > 0
    /\ "NXF_OPTS" \in DOMAIN environ
    /\ environ["NXF_OPTS"] # child.env["NXF_OPTS"]
    /\ child.env["PATH"] = environ["PATH"]

(***************************************************************************)
(* Properties of the staging step (specification SpecStage).               *)
(***************************************************************************)
Denylist ==
    {"latch", ".latch", ".git", "nextflow", ".nextflow", "work", "results",
     "miniconda", "anaconda3", "mambaforge"}

Denylisted(p) == \E i \in 1..Len(p) : p[i] \in Denylist

\* C11: staging never fails because the shared workspace already exists; no
\* path it copies has a component named in the denylist, at any depth; and
\* when it succeeds it has copied every other path of the source tree into
\* the workspace.
C11_StagingDenylist ==
    /\ fs.error # "FileExistsError"
    /\ \A p \in fs.copied : ~Denylisted(p)
    /\ staging = "ok" =>
         /\ fs.copied = {p \in fs.src : ~Denylisted(p)}
         /\ fs.copied \subseteq fs.dst

C11_Witness ==
    /\ staging = "ok"
    /\ Has(steps, "stage")
    /\ fs.existed
    /\ fs.dst # fs.copied
    /\ \E p \in fs.src :
         /\ Len(p) = 2
         /\ p[1] \notin Denylist
         /\ p[2] \in Denylist
         /\ p \notin fs.copied
         /\ <<p[1]>> \in fs.copied

(***************************************************************************)
(* Declarations: the Parameter Registry against the workflow signature.    *)
(***************************************************************************)
DeclaredNames(decls) == {decls[i][1] : i \in DOMAIN decls}

DeclaredOnce(decls) ==
    \A i, j \in DOMAIN decls : decls[i][1] = decls[j][1] => i = j

\* C16: the parameters a call of the workflow binds are the names its
\* signature declares; the Parameter Registry declares the same names; each
\* name is declared once in either; and every name has the same type in both.
C16_RegistryMatchesSignature ==
    /\ DOMAIN args = DeclaredNames(WorkflowDecls)
    /\ DeclaredNames(RegistryDecls) = DeclaredNames(WorkflowDecls)
    /\ DeclaredOnce(RegistryDecls)
    /\ DeclaredOnce(WorkflowDecls)
    /\ \A i \in DOMAIN RegistryDecls, j \in DOMAIN WorkflowDecls :
         RegistryDecls[i][1] = WorkflowDecls[j][1]
           => RegistryDecls[i][2] = WorkflowDecls[j][2]

(***************************************************************************)
(* Properties of the command line, continued (specification SpecCmd).      *)
(***************************************************************************)
\* whether the value token text is the stringification of the value v
Carries(text, v) ==
    CASE v.t = "str" -> text = v.s
      [] v.t = "int" -> ParseInt(text) = {v.n}
      [] v.t = "mode" -> text = v.s
      [] v.t \in {"file", "dir"} -> text = v.s
      [] OTHER -> FALSE

\* C17: for every parameter p other than run_name and outdir, the command has
\* an option --p exactly when the caller's value for p is present (or true),
\* and the option carries that value; no option name occurs twice; and the
\* option --outdir carries the remote path of outdir joined with run_name.
C17_ValuesReachOwnFlag ==
    pc = "built" =>
        LET opts == Options(cmd)
        IN  /\ WellRead(opts)
            /\ \A i, j \in 1..Len(opts) : opts[i].name = opts[j].name => i = j
            /\ \A i, j \in 1..Len(FlagCalls) :
                 FlagCalls[i][1] = FlagCalls[j][1] => i = j
            /\ \A p \in RuntimeParams \ {"run_name", "outdir"} :
                 IF Translated(args[p])
                 THEN \E i \in 1..Len(opts) :
                        /\ opts[i].name = p
                        /\ IF args[p].t = "bool" THEN ~opts[i].hasValue
                           ELSE /\ opts[i].hasValue
                                /\ Carries(opts[i].value, args[p])
                 ELSE OptionsNamed(opts, p) = {}
            /\ OptionsNamed(opts, "run_name") = {}
            /\ \E i \in 1..Len(opts) :
                 /\ opts[i].name = "outdir"
                 /\ opts[i].hasValue
                 /\ opts[i].value = args["outdir"].s \o "/" \o args["run_name"].s

C17_Witness ==
    /\ pc = "built"
    /\ args["email"] = StrV("x")
    /\ args["multiqc_title"] = None
    /\ \E i \in 1..(Len(cmd) - 1) : cmd[i] = "--email" /\ cmd[i + 1] = "x"
    /\ \E i \in 1..(Len(cmd) - 1) :
         /\ cmd[i] = "--outdir"
         /\ cmd[i + 1] = args["outdir"].s \o "/" \o args["run_name"].s

\* C18: the first ten tokens of the command are the same in every run,
\* whatever the arguments: the profile token is docker,test, never the
\* fallback standard, and -c latch.config and -resume follow it.
C18_LeadingTokensFixed ==
    pc = "built" =>
        /\ Len(cmd) >= 10
        /\ SubSeq(cmd, 1, 6)
             = << "/root/nextflow", "run", "/nf-workdir/main.nf", "-work-dir",
                  "/nf-workdir", "-profile" >>
        /\ cmd[7] = "docker,test"
        /\ cmd[7] # "standard"
        /\ cmd[8] = "-c"
        /\ cmd[9] = "latch.config"
        /\ cmd[10] = "-resume"

C18_Witness ==
    /\ pc = "built"
    /\ args # AllAbsent
    /\ args # AllPresent
    /\ cmd[7] = "docker,test"
    /\ cmd[10] = "-resume"

=============================================================================
